---- MODULE Spec2Model ----
(***************************************************************************)
(* Model of src/main.py of kubernetes-ec2-autoscaler: the click option     *)
(* type MultimapParamType, the start-up of main (credential check,         *)
(* construction of Notifier and Cluster) and main's outer loop with its    *)
(* doubling backoff.                                                       *)
(*                                                                         *)
(* A Python str is a sequence of one-character strings.  Python's None is  *)
(* the marker None below.  cluster.scale_loop() and time.sleep() are the   *)
(* two blocking calls of the loop; each is split into its call and its     *)
(* return, and either may raise instead of returning.                      *)
(***************************************************************************)
EXTENDS Integers, Sequences, FiniteSets, TLC

VARIABLES
    pc,                \* position of the process (see PcValues)
    value,             \* raw text given to --drainable-labels
    drainable_labels,  \* <<>> before conversion, then <<outcome of convert>>
    aws_access_key,    \* --aws-access-key / AWS_ACCESS_KEY_ID
    aws_secret_key,    \* --aws-secret-key / AWS_SECRET_ACCESS_KEY
    sleep,             \* --sleep, the base interval
    no_scale,          \* --no-scale
    no_maintenance,    \* --no-maintenance
    dry_run,           \* --dry-run
    notifier,          \* TRUE once Notifier(...) has been constructed
    cluster,           \* <<>> before construction, then <<keyword arguments>>
    backoff,           \* main's local variable backoff
    scaled,            \* result of the last cluster.scale_loop(): "none", "true", "false"
    slept,             \* argument of the most recent time.sleep call
    exit_code,         \* exit status once the process has ended
    unchanged,         \* history: consecutive scale_loop() calls that returned false
    active,            \* history: scale_loop() calls in progress
    sleeps_since,      \* history: time.sleep calls completed since the last scale_loop() return
    prev_slept         \* history: argument of the time.sleep call before the most recent one

vars == <<pc, value, drainable_labels, aws_access_key, aws_secret_key, sleep,
          no_scale, no_maintenance, dry_run, notifier, cluster, backoff, scaled,
          slept, exit_code, unchanged, active, sleeps_since, prev_slept>>

config == <<value, aws_access_key, aws_secret_key, sleep, no_scale, no_maintenance, dry_run>>

history == <<unchanged, active, sleeps_since, prev_slept>>

-----------------------------------------------------------------------------
(* Bounds of the model. *)

\* longest raw option text drawn from all texts over Chars
MaxLen == 6

\* longest list of key=value pairs that is formatted into an option text
MaxPairs == 3

\* largest base interval explored besides the default
MaxSleep == 2

\* longest run of consecutive unchanged cycles
MaxUnchanged == 5

\* default of --sleep
DefaultSleep == 60

-----------------------------------------------------------------------------
(* Python values. *)

None == "<None>"

Truthy(v) == v # None /\ v # ""

Chars == {"a", "b", "=", ","}

RECURSIVE StringsOfLen(_)
StringsOfLen(n) ==
    IF n = 0 THEN {<<>>}
    ELSE {Append(s, c) : s \in StringsOfLen(n - 1), c \in Chars}

Strings == UNION {StringsOfLen(n) : n \in 0..MaxLen}

\* str.split(sep) without maxsplit: cut at every occurrence of sep
RECURSIVE Split(_, _)
Split(s, sep) ==
    IF \A i \in 1..Len(s) : s[i] # sep
    THEN <<s>>
    ELSE LET i == CHOOSE k \in 1..Len(s) :
                      s[k] = sep /\ \A j \in 1..(k - 1) : s[j] # sep
         IN  <<SubSeq(s, 1, i - 1)>> \o Split(SubSeq(s, i + 1, Len(s)), sep)

-----------------------------------------------------------------------------
(* MultimapParamType.convert *)

EmptyMap == [k \in {} |-> {}]

\* convert returned result
Returned(result) == [raised |-> FALSE, result |-> result]

\* self.fail(...): click.BadParameter is raised, nothing is returned
Failed == [raised |-> TRUE]

\* slip: entry.split('=', 1)-like acceptance of a further '='
UnpackAtLeastTwo(parts) == Len(parts) >= 2

\* entry_key, entry_value = entry.split('='): anything but two parts is a ValueError
UnpackOk(parts) == Len(parts) = 2

\* slip: result[entry_key] = {entry_value}, the last value replaces the set
AddValueOverwrites(result, entry_key, entry_value) ==
    [k \in DOMAIN result \cup {entry_key} |->
        IF k = entry_key THEN {entry_value} ELSE result[k]]

\* if entry_key not in result: result[entry_key] = set(); result[entry_key].add(entry_value)
AddValue(result, entry_key, entry_value) ==
    [k \in DOMAIN result \cup {entry_key} |->
        (IF k \in DOMAIN result THEN result[k] ELSE {})
            \cup (IF k = entry_key THEN {entry_value} ELSE {})]

\* the for loop over entry_list, from entry i on, with the map built so far
RECURSIVE ConvertEntries(_, _, _)
ConvertEntries(entry_list, i, result) ==
    IF i > Len(entry_list)
    THEN Returned(result)
    ELSE LET parts == Split(entry_list[i], "=")
         IN  IF UnpackOk(parts)
             THEN ConvertEntries(entry_list, i + 1, AddValue(result, parts[1], parts[2]))
             ELSE Failed

convert(v) ==
    IF v = <<>>
    THEN Returned(EmptyMap)
    ELSE ConvertEntries(Split(v, ","), 1, EmptyMap)

-----------------------------------------------------------------------------
(* Option texts that are lists of key=value pairs. *)

Words == {<<>>, <<"a">>, <<"b">>}

Pairs == Words \X Words

RECURSIVE PairListsOfLen(_)
PairListsOfLen(n) ==
    IF n = 0 THEN {<<>>}
    ELSE {Append(ps, p) : ps \in PairListsOfLen(n - 1), p \in Pairs}

PairLists == UNION {PairListsOfLen(n) : n \in 0..MaxPairs}

\* "k1=v1,k2=v2,...": what an operator types for the list of pairs ps
RECURSIVE Format(_)
Format(ps) ==
    IF ps = <<>> THEN <<>>
    ELSE LET entry == ps[1][1] \o <<"=">> \o ps[1][2]
         IN  IF Len(ps) = 1 THEN entry
             ELSE entry \o <<",">> \o Format(Tail(ps))

Formatted == {Format(ps) : ps \in PairLists}

-----------------------------------------------------------------------------
(* Start-up. *)

PcValues == {"cli", "usage_error", "main", "sys_exit", "loop", "cycle",
             "sleep_scaled", "sleep_backoff", "uncaught"}

\* click converts --drainable-labels with MULTIMAP_PARAM before main is called;
\* a BadParameter ends the process with a usage error
ClickParse ==
    /\ pc = "cli"
    /\ drainable_labels' = <<convert(value)>>
    /\ IF convert(value).raised
       THEN pc' = "usage_error" /\ exit_code' = 2
       ELSE pc' = "main" /\ exit_code' = exit_code
    /\ UNCHANGED <<config, notifier, cluster, backoff, scaled, slept, history>>

\* slip: if not (aws_secret_key or aws_access_key)
CredentialsBothMissing == ~(Truthy(aws_secret_key) \/ Truthy(aws_access_key))

\* if not (aws_secret_key and aws_access_key)
CredentialsMissing == ~(Truthy(aws_secret_key) /\ Truthy(aws_access_key))

\* logger.error(...); sys.exit(1)
MissingCredentials ==
    /\ pc = "main"
    /\ CredentialsMissing
    /\ pc' = "sys_exit"
    /\ exit_code' = 1
    /\ UNCHANGED <<config, drainable_labels, notifier, cluster, backoff, scaled,
                   slept, history>>

\* slip: the two suppression flags passed to each other's argument
ClusterArgsSwapped ==
    [aws_access_key   |-> aws_access_key,
     aws_secret_key   |-> aws_secret_key,
     scale_up         |-> ~no_maintenance,
     maintainance     |-> ~no_scale,
     dry_run          |-> dry_run,
     drainable_labels |-> drainable_labels[1].result]

\* the keyword arguments of Cluster(...) that the options above decide
ClusterArgs ==
    [aws_access_key   |-> aws_access_key,
     aws_secret_key   |-> aws_secret_key,
     scale_up         |-> ~no_scale,
     maintainance     |-> ~no_maintenance,
     dry_run          |-> dry_run,
     drainable_labels |-> drainable_labels[1].result]

\* notifier = Notifier(...); cluster = Cluster(...); backoff = sleep
Construct ==
    /\ pc = "main"
    /\ ~CredentialsMissing
    /\ notifier' = TRUE
    /\ cluster' = <<ClusterArgs>>
    /\ backoff' = sleep
    /\ pc' = "loop"
    /\ UNCHANGED <<config, drainable_labels, scaled, slept, exit_code, history>>

-----------------------------------------------------------------------------
(* The outer loop. *)

\* scaled = cluster.scale_loop(): the call
CallScaleLoop ==
    /\ pc = "loop"
    /\ pc' = "cycle"
    /\ active' = active + 1
    /\ UNCHANGED <<config, drainable_labels, notifier, cluster, backoff, scaled,
                   slept, exit_code, unchanged, sleeps_since, prev_slept>>

\* slip: no sleep after a cycle that scaled
PcIfScaledNoSleep == "loop"

\* time.sleep(sleep) is the statement after a cycle that scaled
PcIfScaled == "sleep_scaled"

\* slip: backoff += sleep
BackoffPlusBase == backoff + sleep

\* backoff *= 2
DoubledBackoff == backoff * 2

\* scale_loop() returned a true value: time.sleep(sleep) is called
ScaleLoopReturnsTrue ==
    /\ pc = "cycle"
    /\ scaled' = "true"
    /\ active' = active - 1
    /\ sleeps_since' = 0
    /\ unchanged' = 0
    /\ prev_slept' = slept
    /\ slept' = sleep
    /\ pc' = PcIfScaled
    /\ UNCHANGED <<config, drainable_labels, notifier, cluster, backoff, exit_code>>

\* scale_loop() returned a false value: the backoff is logged, doubled, and
\* time.sleep(backoff) is called
ScaleLoopReturnsFalse ==
    /\ pc = "cycle"
    /\ unchanged < MaxUnchanged
    /\ scaled' = "false"
    /\ active' = active - 1
    /\ sleeps_since' = 0
    /\ unchanged' = unchanged + 1
    /\ backoff' = DoubledBackoff
    /\ prev_slept' = slept
    /\ slept' = backoff'
    /\ pc' = "sleep_backoff"
    /\ UNCHANGED <<config, drainable_labels, notifier, cluster, exit_code>>

\* scale_loop() raised: main has no handler, the exception ends the process
ScaleLoopRaises ==
    /\ pc = "cycle"
    /\ scaled' = "raised"
    /\ active' = active - 1
    /\ pc' = "uncaught"
    /\ exit_code' = 1
    /\ UNCHANGED <<config, drainable_labels, notifier, cluster, backoff, slept,
                   unchanged, sleeps_since, prev_slept>>

\* slip: the reset is left out
BackoffNotReset == backoff

\* backoff = sleep, the statement after time.sleep(sleep)
BackoffAfterScaled == sleep

\* slip: main returns after the sleep
PcAfterSleepReturn == "returned"

\* while True: the statement after either sleep is the next scale_loop() call
PcAfterSleep == "loop"

\* time.sleep returned
SleepReturns ==
    /\ pc \in {"sleep_scaled", "sleep_backoff"}
    /\ slept >= 0
    /\ sleeps_since' = sleeps_since + 1
    /\ backoff' = IF pc = "sleep_scaled" THEN BackoffAfterScaled ELSE backoff
    /\ pc' = PcAfterSleep
    /\ UNCHANGED <<config, drainable_labels, notifier, cluster, scaled, slept,
                   exit_code, unchanged, active, prev_slept>>

\* time.sleep of a negative length raises, and main has no handler
SleepRaises ==
    /\ pc \in {"sleep_scaled", "sleep_backoff"}
    /\ slept < 0
    /\ pc' = "uncaught"
    /\ exit_code' = 1
    /\ UNCHANGED <<config, drainable_labels, notifier, cluster, backoff, scaled,
                   slept, history>>

-----------------------------------------------------------------------------
(* Specifications. *)

Flags == BOOLEAN

KeyValues == {None, "", "AKIAEXAMPLE"}

\* --sleep takes any integer: the default, small intervals, zero, a negative one
SleepGiven ==
    \/ sleep = DefaultSleep
    \/ sleep \in 0..MaxSleep
    \/ sleep = -1

\* option texts tried with every combination of the other options
SampleLabels == {<<>>, <<"a", "=", "b">>, <<"a">>}

InitRest ==
    /\ pc = "cli"
    /\ drainable_labels = <<>>
    /\ notifier = FALSE
    /\ cluster = <<>>
    /\ backoff = 0
    /\ scaled = "none"
    /\ slept = 0
    /\ exit_code = 0
    /\ unchanged = 0
    /\ active = 0
    /\ sleeps_since = 0
    /\ prev_slept = 0

\* the process as click starts it, for every combination of the options
Init ==
    /\ value \in SampleLabels
    /\ aws_access_key \in KeyValues
    /\ aws_secret_key \in KeyValues
    /\ SleepGiven
    /\ no_scale \in Flags
    /\ no_maintenance \in Flags
    /\ dry_run \in Flags
    /\ InitRest

Next ==
    \/ ClickParse
    \/ MissingCredentials
    \/ Construct
    \/ CallScaleLoop
    \/ ScaleLoopReturnsTrue
    \/ ScaleLoopReturnsFalse
    \/ ScaleLoopRaises
    \/ SleepReturns
    \/ SleepRaises

Spec == Init /\ [][Next]_vars

\* every step of the process is eventually taken when it stays possible: a
\* scale_loop() call ends (it returns, or it may raise) and a sleep ends
LiveSpec ==
    /\ Init
    /\ [][Next]_vars
    /\ WF_vars(ClickParse)
    /\ WF_vars(MissingCredentials \/ Construct)
    /\ WF_vars(CallScaleLoop)
    /\ WF_vars(ScaleLoopReturnsTrue \/ ScaleLoopReturnsFalse)
    /\ WF_vars(SleepReturns)
    /\ WF_vars(SleepRaises)

\* only --drainable-labels is given; every other option has its default
InitConvert ==
    /\ value \in Strings \cup Formatted
    /\ aws_access_key = None
    /\ aws_secret_key = None
    /\ sleep = DefaultSleep
    /\ no_scale = FALSE
    /\ no_maintenance = FALSE
    /\ dry_run = FALSE
    /\ InitRest

\* the conversion of the option text alone
NextConvert == ClickParse

ConvertSpec == InitConvert /\ [][NextConvert]_vars

-----------------------------------------------------------------------------
(* Properties. *)

RECURSIVE Pow2(_)
Pow2(n) == IF n <= 0 THEN 1 ELSE 2 * Pow2(n - 1)

InLoop == pc \in {"loop", "cycle", "sleep_scaled", "sleep_backoff"}

Sleeping == pc \in {"sleep_scaled", "sleep_backoff"}

Absent(key) == key = None \/ key = ""

\* C1: after the Nth consecutive scale_loop() call that returned false (N >= 1)
\* the process sleeps base * 2^(N-1), so base after the first one.
C1_SleepAfterNthUnchanged ==
    (pc = "sleep_backoff" /\ unchanged >= 1) => slept = sleep * Pow2(unchanged - 1)

\* C2: after scale_loop() returns true the process sleeps exactly the base
\* interval, and when the next cycle starts the backoff is the base again,
\* whatever run of unchanged cycles preceded: the loop is then in the state
\* in which it was entered, so its sleeps go on as from process start.
C2_ScaledResetsBackoff ==
    /\ pc = "sleep_scaled" => slept = sleep /\ unchanged = 0
    /\ (pc \in {"loop", "cycle"} /\ scaled \in {"none", "true"})
           => backoff = sleep /\ unchanged = 0

\* a cycle that scaled ends a run of unchanged cycles with a longer sleep
C2_Witness ==
    /\ pc = "loop"
    /\ scaled = "true"
    /\ sleep > 0
    /\ prev_slept > sleep

\* C3: with the access key or the secret key None or empty, main exits with
\* status 1 and neither Notifier nor Cluster is built, scale_loop() is never
\* called and nothing sleeps; with both present main does not exit there and
\* goes on to the loop.
C3_CredentialsGate ==
    /\ (pc \notin {"cli", "usage_error"}
            /\ (Absent(aws_access_key) \/ Absent(aws_secret_key)))
       => /\ pc \in {"main", "sys_exit"}
          /\ pc = "sys_exit" => exit_code = 1
          /\ pc = "main" => ENABLED MissingCredentials /\ ~ENABLED Construct
          /\ ~notifier /\ cluster = <<>>
          /\ scaled = "none" /\ active = 0 /\ sleeps_since = 0
    /\ (~Absent(aws_access_key) /\ ~Absent(aws_secret_key))
       => /\ pc # "sys_exit"
          /\ pc = "main" => ENABLED Construct /\ ~ENABLED MissingCredentials

\* one key given, the other empty: the process has exited
C3_Witness ==
    /\ pc = "sys_exit"
    /\ aws_access_key = "AKIAEXAMPLE"
    /\ aws_secret_key = ""

\* C4: a scale_loop() call that raises does not end the process; the loop
\* goes on to a later cycle.
C4_CycleErrorSurvived == scaled = "raised" => InLoop

\* the map of a list of pairs: each key that occurs, with all its values
MapOf(ps) ==
    [k \in {ps[i][1] : i \in 1..Len(ps)} |->
        {ps[i][2] : i \in {j \in 1..Len(ps) : ps[j][1] = k}}]

\* each list of pairs as its text and its map
Expected == {<<Format(ps), MapOf(ps)>> : ps \in PairLists}

\* C5: for the text of a list of key=value pairs, convert returns the map
\* whose keys are the keys that occur, each with the set of all its values;
\* for the empty text it returns the empty map.
C5_ConvertBuildsMultimap ==
    pc # "cli" =>
        /\ \A t \in Expected :
               t[1] = value => drainable_labels = <<Returned(t[2])>>
        /\ value = <<>> => drainable_labels = <<Returned(EmptyMap)>>

\* three entries: a repeated key has accumulated two values beside another key
C5_Witness ==
    /\ pc = "main"
    /\ Cardinality(DOMAIN drainable_labels[1].result) = 2
    /\ \E k \in DOMAIN drainable_labels[1].result :
           Cardinality(drainable_labels[1].result[k]) = 2

\* the places of the commas of the text, and its two ends
Cuts == {0, Len(value) + 1} \cup {i \in 1..Len(value) : value[i] = ","}

\* some entry (the text between two neighbouring cuts) does not hold exactly one '='
HasBadEntry ==
    \E p \in Cuts, q \in Cuts :
        /\ p < q
        /\ \A r \in Cuts : ~(p < r /\ r < q)
        /\ Cardinality({i \in (p + 1)..(q - 1) : value[i] = "="}) # 1

\* C6: for a non-empty text with an entry that does not hold exactly one '=',
\* convert fails with a parameter error and returns no map, wherever the entry is.
C6_ConvertRejectsMalformed ==
    (pc # "cli" /\ value # <<>> /\ HasBadEntry)
        => drainable_labels = <<Failed>> /\ pc = "usage_error" /\ exit_code = 2

\* a bad entry after a good one
C6_Witness ==
    /\ pc = "usage_error"
    /\ value = <<"a", "=", "b", ",", "a">>

\* C7: at most one scale_loop() call is in progress, none during a sleep, and
\* every call but the first starts after exactly one completed sleep since
\* the previous call returned.
C7_CyclesSequential ==
    /\ active \in {0, 1}
    /\ active = 1 <=> pc = "cycle"
    /\ Sleeping => sleeps_since = 0
    /\ (pc \in {"loop", "cycle"} /\ scaled # "none") => sleeps_since = 1
    /\ (pc \in {"loop", "cycle"} /\ scaled = "none") => sleeps_since = 0

\* a third cycle in progress
C7_Witness ==
    /\ pc = "cycle"
    /\ scaled = "false"
    /\ unchanged = 1
    /\ prev_slept = sleep
    /\ sleep > 0
    /\ sleeps_since = 1

\* the three statements of C8, with B + 1 unchanged cycles for the bound B
BackoffDoubles ==
    /\ (pc = "sleep_backoff" /\ unchanged >= 2) => slept = 2 * prev_slept
    /\ InLoop => /\ backoff >= sleep
                 /\ \E k \in 0..MaxUnchanged : backoff = sleep * Pow2(k)
    /\ \A B \in 0..MaxUnchanged :
           (pc = "sleep_backoff" /\ unchanged >= B + 1) => slept > B

\* C8 as stated: in a run of unchanged cycles each sleep is twice the one
\* before, the backoff is base * 2^k and never below base, and it has no
\* ceiling: after B + 1 consecutive unchanged cycles the sleep exceeds B.
C8_BackoffUnbounded == BackoffDoubles

\* C8 amended: the same, provided the base interval is positive.
C8_BackoffUnboundedPositiveBase == sleep > 0 => BackoffDoubles

\* the third sleep of a run, eight times a positive base
C8_Witness ==
    /\ pc = "sleep_backoff"
    /\ unchanged = 3
    /\ sleep > 0
    /\ slept = 8 * sleep

\* C9: with the credentials present, when no scale_loop() call and no sleep
\* raises, scale_loop() is called again and again and the process never exits.
C9_LoopNeverStops ==
    (/\ ~convert(value).raised
     /\ ~Absent(aws_access_key)
     /\ ~Absent(aws_secret_key)
     /\ [](pc # "uncaught"))
        => ([]<>(pc = "cycle") /\ [](pc \in {"cli", "main"} \/ InLoop))

\* a cycle in progress after cycles of both results
C9_Witness ==
    /\ pc = "cycle"
    /\ scaled = "true"
    /\ prev_slept > slept

\* C10: the Cluster is built with scale_up true exactly when --no-scale is
\* not set, maintainance true exactly when --no-maintenance is not set and
\* dry_run as given, and these stay as built in every cycle.
C10_FlagsInverted ==
    cluster # <<>> =>
        /\ InLoop \/ pc = "uncaught"
        /\ cluster[1].scale_up <=> (no_scale = FALSE)
        /\ cluster[1].maintainance <=> (no_maintenance = FALSE)
        /\ cluster[1].dry_run <=> (dry_run = TRUE)

\* a later cycle with only --no-scale and --dry-run set
C10_Witness ==
    /\ pc = "cycle"
    /\ scaled = "false"
    /\ no_scale /\ ~no_maintenance /\ dry_run
    /\ ~cluster[1].scale_up /\ cluster[1].maintainance /\ cluster[1].dry_run

====
